---------------------------- MODULE Spec2Model ----------------------------
(***************************************************************************)
(* CP-stitky: package identifiers of the postal labels (src/app.py).       *)
(*                                                                         *)
(* Two parts are modelled:                                                 *)
(*   - the identifier generator, calculate_pkg_checksum and create_pkg_id, *)
(*     as operators computed the way the Python code computes them         *)
(*     (strings are sequences of one-character strings);                   *)
(*   - the label request handler create_postal_labe_data, run by the       *)
(*     worker threads of the WSGI thread pool against the table            *)
(*     ziskej_packages, split at its storage round trips.                  *)
(***************************************************************************)
EXTENDS Integers, Sequences, FiniteSets, TLC

(***************************************************************************)
(* Bounds of the model.                                                    *)
(***************************************************************************)
\* pkg_number inputs of create_pkg_id range over -MaxPkgNumber..MaxPkgNumber
MaxPkgNumber == 12
\* a repeated call shifts pkg_number by k * modul, k in -MaxK..MaxK
MaxK == 2
\* calculate_pkg_checksum inputs: x, 540000000 + x and 1000000000 + x for
\* x in 0..MaxNumber, besides one digit at each of the nine weighted places
MaxNumber == 40
\* worker threads of the WSGI thread pool serving label requests
NumThreads == 2
\* distinct client-supplied ids ('id' of the request body)
NumLabels == 2

\* the table's id sequence hands out the ids 1..MaxId: one per label id, which
\* is all the rows there can be unless the storage loses one
MaxId == NumLabels

(***************************************************************************)
(* Program constants.                                                      *)
(***************************************************************************)
\* the sample sequence numbers of the stand-alone script
PKG_S2D == 1234566
PKG_D2S == 1234567
PKG_PADDING == 9
SUBMITTER_ID == 54
PKG_PREFIX == <<"D", "R">>
PKG_POSTFIX == <<"M">>

(***************************************************************************)
(* Python strings and integers.                                            *)
(***************************************************************************)
DIGITS == <<"0", "1", "2", "3", "4", "5", "6", "7", "8", "9">>

DigitChar(d) == DIGITS[d + 1]

IsDigit(c) == \E d \in 0..9 : DIGITS[d + 1] = c

DigitVal(c) == CHOOSE d \in 0..9 : DIGITS[d + 1] = c

Reverse(s) == [i \in 1..Len(s) |-> s[Len(s) + 1 - i]]

RECURSIVE Pow10(_)
Pow10(p) == IF p <= 0 THEN 1 ELSE 10 * Pow10(p - 1)

\* Python's a % b: the result has the sign of b
PyMod(a, b) == IF b > 0 THEN a % b ELSE -((-a) % (-b))

\* the decimal digits of n >= 0, without leading zeros
RECURSIVE DecimalDigits(_)
DecimalDigits(n) ==
    IF n < 10 THEN <<DigitChar(n)>>
    ELSE Append(DecimalDigits(n \div 10), DigitChar(n % 10))

Abs(n) == IF n < 0 THEN -n ELSE n

Sign(n) == IF n < 0 THEN <<"-">> ELSE <<>>

Zeros(k) == [i \in 1..k |-> "0"]

\* '{}'.format(n) of an int
Format(n) == Sign(n) \o DecimalDigits(Abs(n))

Ok(v) == [raised |-> "", value |-> v]

Raise(e, v) == [raised |-> e, value |-> v]

\* '{:0{}d}'.format(n, width): sign-aware zero padding up to width, and the
\* number as it is when it is longer; a negative width is no format spec
FormatZeroPadded(n, width) ==
    IF width < 0 THEN Raise("ValueError", <<>>)
    ELSE Ok(Sign(n)
            \o Zeros(width - Len(Sign(n)) - Len(DecimalDigits(Abs(n))))
            \o DecimalDigits(Abs(n)))

RECURSIVE DigitsValue(_)
DigitsValue(s) ==
    IF s = <<>> THEN 0
    ELSE 10 * DigitsValue(SubSeq(s, 1, Len(s) - 1)) + DigitVal(s[Len(s)])

AllDigits(s) == s /= <<>> /\ \A i \in 1..Len(s) : IsDigit(s[i])

\* int(s) of a string made of digits and "-"
IntOf(s) ==
    IF AllDigits(s) THEN Ok(DigitsValue(s))
    ELSE IF s /= <<>> /\ s[1] = "-" /\ AllDigits(Tail(s))
         THEN Ok(-DigitsValue(Tail(s)))
         ELSE Raise("ValueError", 0)

(***************************************************************************)
(* calculate_pkg_checksum                                                  *)
(***************************************************************************)
FACTORS == <<1, 8, 6, 4, 2, 3, 5, 9, 7>>

FactorsForward == FACTORS

\* the order in which the loop takes the factors: FACTORS[::-1]
LoopFactors == Reverse(FACTORS)

\* for factor in ...: number, module = divmod(number, 10); checksum += ...
RECURSIVE ChecksumLoop(_, _, _)
ChecksumLoop(factors, number, checksum) ==
    IF factors = <<>> THEN checksum
    ELSE ChecksumLoop(Tail(factors), number \div 10,
                      checksum + Head(factors) * (number % 10))

\* a = checksum % 11
ChecksumMod11(number) == ChecksumLoop(LoopFactors, number, 0) % 11

CheckDigitNoZeroCase(a) == IF a > 0 THEN 11 - a ELSE 5

CheckDigitZeroForZero(a) ==
    CASE a > 1 -> 11 - a
      [] a = 1 -> 0
      [] a = 0 -> 0

\* the three ifs on a; any other a would return None
CheckDigit(a) ==
    CASE a > 1 -> 11 - a
      [] a = 1 -> 0
      [] a = 0 -> 5

calculate_pkg_checksum(number) == CheckDigit(ChecksumMod11(number))

(***************************************************************************)
(* create_pkg_id                                                           *)
(***************************************************************************)
ReduceNoModul(pkg_number, modul, offset) == pkg_number + offset

ReduceFloorDiv(pkg_number, modul, offset) ==
    IF modul > 0 THEN (pkg_number \div modul) + offset
    ELSE PyMod(pkg_number, modul) + offset

\* pkg_number = (pkg_number % modul) + offset
Reduce(pkg_number, modul, offset) == PyMod(pkg_number, modul) + offset

create_pkg_id(service, pkg_number) ==
    LET prefix == service.prefix
        postfix == service.postfix
        modul == service.modul
        offset == service.offset
        padding == service.padding
        submitter_id == Format(service.submitter_id)
        reduced == Reduce(pkg_number, modul, offset)
        tmp_pkg_number == FormatZeroPadded(reduced, padding - Len(submitter_id))
        number == IntOf(submitter_id \o tmp_pkg_number.value)
        checksum == calculate_pkg_checksum(number.value)
    IN  IF modul = 0 THEN Raise("ZeroDivisionError", <<>>)
        ELSE IF tmp_pkg_number.raised /= "" THEN Raise(tmp_pkg_number.raised, <<>>)
        ELSE IF number.raised /= "" THEN Raise(number.raised, <<>>)
        ELSE Ok(prefix \o submitter_id \o tmp_pkg_number.value
                \o Format(checksum) \o postfix)

(***************************************************************************)
(* State.                                                                  *)
(***************************************************************************)
VARIABLES
    call,             \* the last call of the generator: its inputs and locals
    prev,             \* the call before it, when the last one repeats it
    service,          \* the row of table service named 'ziskej-cp_stitek'
    ziskej_packages,  \* the rows of table ziskej_packages: [id, token]
    next_id,          \* the next value of the table's id sequence
    pc,               \* per worker thread: where its request stands
    label_id,         \* per worker thread: request_data['id']
    package,          \* per worker thread: the list the last query returned
    responses         \* per worker thread: what its last request returned
                      \* or raised, until its next request is under way
                      \* (a set of at most one response)

vars == <<call, prev, service, ziskej_packages, next_id, pc, label_id,
          package, responses>>

genVars == <<call, prev>>

allocVars == <<service, ziskej_packages, next_id, pc, label_id, package,
               responses>>

Threads == 1..NumThreads

LabelIds == 1..NumLabels

(***************************************************************************)
(* Inputs of the generator.                                                *)
(***************************************************************************)
Scheme(submitter_id, modul, offset, padding) ==
    [prefix |-> PKG_PREFIX, postfix |-> PKG_POSTFIX,
     submitter_id |-> submitter_id, modul |-> modul, offset |-> offset,
     padding |-> padding]

\* the scheme of the stand-alone script: DR 54 ....... c M
SampleScheme == Scheme(SUBMITTER_ID, 10000000, 0, PKG_PADDING)

\* rows table service may hold: nothing in the code restricts them
Schemes ==
    {Scheme(s, 10000000, o, p) : s \in {SUBMITTER_ID, 7}, o \in {0, -3},
                                 p \in {PKG_PADDING, 4, 3, 2, 1}}
    \cup {Scheme(s, m, o, p) : s \in {SUBMITTER_ID, 7},
                               m \in {100, 10, 7, 0, -3},
                               o \in {0, 95, -3},
                               p \in {PKG_PADDING, 4, 3, 2, 1}}

\* the invariant the data model states for a numbering scheme
ValidScheme(s) == s.padding > Len(Format(s.submitter_id)) /\ s.modul > 0

PkgNumbers == (-MaxPkgNumber..MaxPkgNumber) \cup {PKG_S2D, PKG_D2S}

ChecksumInputs ==
    {d * Pow10(p) : d \in 0..9, p \in 0..(Len(FACTORS) - 1)}
    \cup {SUBMITTER_ID * 10000000 + PKG_S2D, SUBMITTER_ID * 10000000 + PKG_D2S}
    \cup {b + x : b \in {0, SUBMITTER_ID * 10000000, 1000000000},
                  x \in 0..MaxNumber}

NoCall ==
    [op |-> "none", service |-> SampleScheme, pkg_number |-> 0, number |-> 0,
     a |-> 0, checksum |-> 0, raised |-> "", pkg_id |-> <<>>]

(***************************************************************************)
(* The table ziskej_packages.                                              *)
(***************************************************************************)
\* token = hashlib.sha256(label_id).hexdigest(): distinct ids, distinct digests
Sha256HexDigest(l) == <<"sha256", l>>

RowsOf(table, token) == {row \in table : row.token = token}

RECURSIVE ById(_)
ById(rows) ==
    IF rows = {} THEN <<>>
    ELSE LET first == CHOOSE r \in rows : \A q \in rows : r.id <= q.id
         IN  <<first>> \o ById(rows \ {first})

\* db.ziskej_packages.filter_by(token=token).all()
FilterByToken(table, token) == ById(RowsOf(table, token))

NoUniqueConstraint(table, token) == FALSE

\* the unique constraint on column token refuses a second row of a token
UniqueViolation(table, token) == RowsOf(table, token) /= {}

(***************************************************************************)
(* create_postal_labe_data, from the list of rows to the two labels.       *)
(***************************************************************************)
\* the request ends with an exception: nothing is returned
Failed(l, exc) ==
    [label_id |-> l, raised |-> exc, index |-> <<>>, pair |-> <<>>,
     package_ids |-> <<>>]

PkgIdBaseUndoubled(id) == id

\* pkg_id_base = 2 * package.id
PkgIdBase(id) == 2 * id

FirstRowOrDefault(rows) ==
    IF Len(rows) < 1 THEN Ok([id |-> 0, token |-> <<>>]) ELSE Ok(rows[1])

\* package = package[0]
FirstRow(rows) ==
    IF Len(rows) < 1 THEN Raise("IndexError", [id |-> 0, token |-> <<>>])
    ELSE Ok(rows[1])

\* lines 99..116: what the request returns, or the exception that ends it
Labels(l, rows) ==
    LET first == FirstRow(rows)
        pkg_id_base == PkgIdBase(first.value.id)
        pkg_id_d2s == pkg_id_base
        pkg_id_s2d == pkg_id_base + 1
        src_to_dst == create_pkg_id(service, pkg_id_d2s)
        dst_to_src == create_pkg_id(service, pkg_id_s2d)
    IN  IF first.raised /= ""
        THEN Failed(l, first.raised)
        ELSE IF src_to_dst.raised /= ""
        THEN Failed(l, src_to_dst.raised)
        ELSE IF dst_to_src.raised /= ""
        THEN Failed(l, dst_to_src.raised)
        ELSE [label_id |-> l, raised |-> "",
              index |-> <<first.value.id>>,
              pair |-> <<pkg_id_d2s, pkg_id_s2d>>,
              package_ids |-> <<src_to_dst.value, dst_to_src.value>>]

(***************************************************************************)
(* Init.                                                                   *)
(***************************************************************************)
Init ==
    /\ call = NoCall
    /\ prev = NoCall
    /\ service = SampleScheme
    /\ ziskej_packages = {}
    /\ next_id = 1
    /\ pc = [t \in Threads |-> "idle"]
    /\ label_id = [t \in Threads |-> 1]
    /\ package = [t \in Threads |-> <<>>]
    /\ responses = [t \in Threads |-> {}]

(***************************************************************************)
(* The generator's calls.                                                  *)
(***************************************************************************)
CreateCall(s, n) ==
    LET r == create_pkg_id(s, n)
    IN  [op |-> "create_pkg_id", service |-> s, pkg_number |-> n,
         number |-> 0, a |-> 0, checksum |-> 0, raised |-> r.raised,
         pkg_id |-> r.value]

\* create_pkg_id(service, pkg_number)
CreatePkgId(s, n) ==
    /\ call.op = "none"
    /\ call' = CreateCall(s, n)
    /\ prev' = NoCall
    /\ UNCHANGED allocVars

\* the same scheme again, with the sequence number k moduli further
CreatePkgIdShifted(k) ==
    /\ call.op = "create_pkg_id"
    /\ prev = NoCall
    /\ k /= 0
    /\ prev' = call
    /\ call' = CreateCall(call.service, call.pkg_number + k * call.service.modul)
    /\ UNCHANGED allocVars

\* calculate_pkg_checksum(number)
CalculatePkgChecksum(number) ==
    /\ call.op = "none"
    /\ call' = [op |-> "calculate_pkg_checksum", service |-> SampleScheme,
                pkg_number |-> 0, number |-> number,
                a |-> ChecksumMod11(number),
                checksum |-> calculate_pkg_checksum(number),
                raised |-> "", pkg_id |-> <<>>]
    /\ prev' = NoCall
    /\ UNCHANGED allocVars

\* the call's result is taken; the generator keeps no state between calls
ReturnCall ==
    /\ call.op /= "none"
    /\ call' = NoCall
    /\ prev' = NoCall
    /\ UNCHANGED allocVars

GenNext ==
    \/ \E s \in Schemes, n \in PkgNumbers : CreatePkgId(s, n)
    \/ \E k \in -MaxK..MaxK : CreatePkgIdShifted(k)
    \/ \E number \in ChecksumInputs : CalculatePkgChecksum(number)
    \/ ReturnCall

GenSpec == Init /\ [][GenNext]_vars

(***************************************************************************)
(* The label request of one worker thread.                                 *)
(***************************************************************************)
\* the responses of the threads' last requests
Responses == UNION {responses[t] : t \in Threads}

Return(t, response) ==
    /\ responses' = [responses EXCEPT ![t] = {response}]
    /\ pc' = [pc EXCEPT ![t] = "idle"]
    /\ label_id' = [label_id EXCEPT ![t] = 1]
    /\ package' = [package EXCEPT ![t] = <<>>]

LookupAlwaysInsert(t, l) ==
    /\ pc[t] = "idle"
    /\ pc' = [pc EXCEPT ![t] = "insert"]
    /\ label_id' = [label_id EXCEPT ![t] = l]
    /\ package' = [package EXCEPT ![t] =
                       FilterByToken(ziskej_packages, Sha256HexDigest(l))]
    /\ responses' = [responses EXCEPT ![t] = {}]
    /\ UNCHANGED <<genVars, service, ziskej_packages, next_id>>

\* lines 85..92, and 99..116 when the token has a row
Lookup(t, l) ==
    /\ pc[t] = "idle"
    /\ LET found == FilterByToken(ziskej_packages, Sha256HexDigest(l))
       IN  IF Len(found) < 1
           THEN /\ pc' = [pc EXCEPT ![t] = "insert"]
                /\ label_id' = [label_id EXCEPT ![t] = l]
                /\ package' = [package EXCEPT ![t] = found]
                /\ responses' = [responses EXCEPT ![t] = {}]
           ELSE Return(t, Labels(l, found))
    /\ UNCHANGED <<genVars, service, ziskej_packages, next_id>>

\* lines 95..96: insert(token=token, added=...) and commit()
InsertCommit(t) ==
    /\ pc[t] = "insert"
    /\ LET token == Sha256HexDigest(label_id[t])
       IN  IF UniqueViolation(ziskej_packages, token)
           THEN /\ Return(t, Failed(label_id[t], "IntegrityError"))
                /\ UNCHANGED <<ziskej_packages, next_id>>
           ELSE /\ next_id <= MaxId
                /\ ziskej_packages' =
                       ziskej_packages \cup {[id |-> next_id, token |-> token]}
                /\ next_id' = next_id + 1
                /\ pc' = [pc EXCEPT ![t] = "reselect"]
                /\ UNCHANGED <<label_id, package, responses>>
    /\ UNCHANGED <<genVars, service>>

\* lines 97..116: the second query, and the labels from its first row
Reselect(t) ==
    /\ pc[t] = "reselect"
    /\ Return(t, Labels(label_id[t],
                        FilterByToken(ziskej_packages,
                                      Sha256HexDigest(label_id[t]))))
    /\ UNCHANGED <<genVars, service, ziskej_packages, next_id>>

Next ==
    \/ \E t \in Threads, l \in LabelIds : Lookup(t, l)
    \/ \E t \in Threads : InsertCommit(t)
    \/ \E t \in Threads : Reselect(t)

Spec == Init /\ [][Next]_vars

\* the storage loses the row a request has just committed, before the
\* request's second query reads it
LoseRow ==
    /\ \E row \in ziskej_packages :
           /\ \E t \in Threads : /\ pc[t] = "reselect"
                                 /\ Sha256HexDigest(label_id[t]) = row.token
           /\ ziskej_packages' = ziskej_packages \ {row}
    /\ UNCHANGED <<genVars, service, next_id, pc, label_id, package,
                   responses>>

LossNext ==
    \/ \E t \in Threads, l \in LabelIds : Lookup(t, l)
    \/ \E t \in Threads : InsertCommit(t)
    \/ \E t \in Threads : Reselect(t)
    \/ LoseRow

LossSpec == Init /\ [][LossNext]_vars

\* rows that table service may hold for 'ziskej-cp_stitek': the sample scheme,
\* schemes with a small modul, and schemes that break padding >
\* len(submitter_id) or modul > 0; the row is read at line 90 as it is
ServiceRows ==
    {SampleScheme,
     Scheme(SUBMITTER_ID, 100, 0, 4),
     Scheme(SUBMITTER_ID, 2, 0, PKG_PADDING),
     Scheme(SUBMITTER_ID, 1, 0, PKG_PADDING),
     Scheme(SUBMITTER_ID, 10, 0, 2),
     Scheme(SUBMITTER_ID, -3, 95, PKG_PADDING),
     Scheme(SUBMITTER_ID, 0, 0, PKG_PADDING)}

\* the label requests under any of these rows, fixed for the run
ServiceInit ==
    /\ call = NoCall
    /\ prev = NoCall
    /\ service \in ServiceRows
    /\ ziskej_packages = {}
    /\ next_id = 1
    /\ pc = [t \in Threads |-> "idle"]
    /\ label_id = [t \in Threads |-> 1]
    /\ package = [t \in Threads |-> <<>>]
    /\ responses = [t \in Threads |-> {}]

ServiceSpec == ServiceInit /\ [][Next]_vars

(***************************************************************************)
(* Properties of the label requests.                                       *)
(***************************************************************************)
OkResponses == {r \in Responses : r.raised = ""}

TokenOf(t) == Sha256HexDigest(label_id[t])

\* C1: any two label requests carrying the same token, one after the other
\* or interleaved, both complete and both obtain the same (forward, return)
\* pair.
C1_Idempotence ==
    \A a, b \in Responses :
        a.label_id = b.label_id =>
            a.raised = "" /\ b.raised = "" /\ a.pair = b.pair

C3_LoserFallsBack ==
    [][\A t \in Threads :
          (/\ pc[t] = "insert"
           /\ UniqueViolation(ziskej_packages, TokenOf(t))
           /\ pc'[t] /= "insert")
          => \/ pc'[t] = "reselect"
             \/ \E r \in responses'[t], row \in ziskej_packages :
                    /\ r.raised = ""
                    /\ row.token = TokenOf(t)
                    /\ r.pair = <<2 * row.id, 2 * row.id + 1>>]_vars

\* C4: the pair of a record with index i is (2i, 2i + 1), and the pairs of
\* two records with distinct indices share no sequence number.
C4_Disjoint ==
    \A a, b \in OkResponses :
        /\ a.pair = <<2 * a.index[1], 2 * a.index[1] + 1>>
        /\ a.index /= b.index =>
               {a.pair[1], a.pair[2]} \cap {b.pair[1], b.pair[2]} = {}

\* two requests have returned the pairs of two different records
C4_Witness ==
    \E a, b \in OkResponses : a.index /= b.index /\ a.label_id /= b.label_id

\* C10: when the second query of a request that has inserted finds no row of
\* its token, the request fails and returns no pair and no identifier; a
\* request that does return has taken its pair from a row of its token that
\* the table holds.
C10_NoFabrication ==
    [][\A t \in Threads :
          (pc[t] = "reselect" /\ pc'[t] = "idle")
          => \A r \in responses'[t] :
                 /\ RowsOf(ziskej_packages, TokenOf(t)) = {}
                    => r.raised /= "" /\ r.pair = <<>> /\ r.package_ids = <<>>
                 /\ r.raised = ""
                    => /\ [id |-> r.index[1], token |-> TokenOf(t)]
                              \in ziskej_packages
                       /\ r.pair = <<2 * r.index[1], 2 * r.index[1] + 1>>
                       /\ r.package_ids =
                              <<create_pkg_id(service, r.pair[1]).value,
                                create_pkg_id(service, r.pair[2]).value>>]_vars

\* a request that had inserted found no row and ended with the IndexError of
\* package[0]
C10_Witness ==
    \E r \in Responses :
        r.raised = "IndexError" /\ r.pair = <<>> /\ r.package_ids = <<>>

\* C11: the rows of the table are append-only: a step of a label request
\* removes or changes no row and gives no id a second time; a row is added
\* only for a token that has none, by a request that is past its lookup; and
\* a request goes on to insert only when its lookup found no row of its
\* token, so that a request whose token has a row leaves the table as it is.
C11_AppendOnly ==
    [][/\ ziskej_packages \subseteq ziskej_packages'
       /\ \A row \in ziskej_packages' \ ziskej_packages :
              /\ RowsOf(ziskej_packages, row.token) = {}
              /\ \A old \in ziskej_packages : old.id /= row.id
       /\ \A t \in Threads :
              (pc[t] = "idle" /\ pc'[t] = "insert")
              => RowsOf(ziskej_packages, Sha256HexDigest(label_id'[t])) = {}
       /\ \A row \in ziskej_packages' \ ziskej_packages :
              \E t \in Threads : /\ pc[t] = "insert"
                                 /\ pc'[t] = "reselect"
                                 /\ row.token = TokenOf(t)]_vars

\* two requests of one token have returned from the one row of the token:
\* only one of them can have inserted it, the other found it and left the
\* table as it was
C11_Witness ==
    \E t1, t2 \in Threads :
        /\ t1 /= t2
        /\ \E r1 \in responses[t1], r2 \in responses[t2] :
               /\ r1.raised = "" /\ r2.raised = ""
               /\ r1.label_id = r2.label_id
               /\ r1.index = r2.index
               /\ RowsOf(ziskej_packages, Sha256HexDigest(r1.label_id))
                      = {[id |-> r1.index[1],
                          token |-> Sha256HexDigest(r1.label_id)]}

\* C12: a scheme with padding <= len(submitter_id) or modul <= 0 is rejected
\* before identifier generation: no label request answers with identifiers
\* produced from such a scheme.
C12_MalformedRejected ==
    ~ValidScheme(service) => \A r \in Responses : r.package_ids = <<>>

\* the identifiers of a response
IdsOf(r) == {r.package_ids[1], r.package_ids[2]}

\* the forward and return identifiers of a differ, and a and b of different
\* indices share no identifier
DistinctIds(a, b) ==
    /\ a.package_ids[1] /= a.package_ids[2]
    /\ a.index /= b.index => IdsOf(a) \cap IdsOf(b) = {}

\* no sequence number of the response has reached modul
BelowModul(r) == r.pair[1] < service.modul /\ r.pair[2] < service.modul

\* C15 as stated: under one fixed scheme the identifiers issued are pairwise
\* distinct, the forward and return identifiers of one record and the
\* identifiers of two records of different indices, also once 2 * index or
\* 2 * index + 1 has reached modul and is reduced.
C15_AllDistinct ==
    ValidScheme(service) => \A a, b \in OkResponses : DistinctIds(a, b)

\* C15 as amended: the identifiers are pairwise distinct as long as the
\* sequence numbers 2 * index and 2 * index + 1 are below modul.
C15_DistinctBelowModul ==
    ValidScheme(service) =>
        \A a, b \in OkResponses :
            (BelowModul(a) /\ BelowModul(b)) => DistinctIds(a, b)

\* two records of different indices got four different identifiers, all of
\* sequence numbers below modul
C15_Witness ==
    /\ ValidScheme(service)
    /\ \E a, b \in OkResponses :
           /\ a.index /= b.index
           /\ BelowModul(a) /\ BelowModul(b)
           /\ IdsOf(a) \cap IdsOf(b) = {}
           /\ Cardinality(IdsOf(a) \cup IdsOf(b)) = 4

(***************************************************************************)
(* Properties of the generator.                                            *)
(***************************************************************************)
\* the width of the number field of a scheme
Width(s) == s.padding - Len(Format(s.submitter_id))

IsCreate == call.op = "create_pkg_id"

IsChecksum == call.op = "calculate_pkg_checksum"

\* the number after reduction has more digits than the number field
TooLong(s, n) ==
    /\ Reduce(n, s.modul, s.offset) >= 0
    /\ Len(DecimalDigits(Reduce(n, s.modul, s.offset))) > Width(s)

\* C5: create_pkg_id fails with a range error and returns no identifier
\* whenever the reduced number has more digits than padding -
\* len(submitter_id).
C5_RangeError ==
    (IsCreate /\ ValidScheme(call.service)
     /\ TooLong(call.service, call.pkg_number))
    => call.raised = "RangeError" /\ call.pkg_id = <<>>

\* C6: every identifier returned under a scheme with padding >
\* len(submitter_id) and modul > 0 is prefix + submitter_id + (padding -
\* len(submitter_id)) digits + one check digit + postfix, of length
\* len(prefix) + padding + 1 + len(postfix).
C6_Format ==
    (IsCreate /\ ValidScheme(call.service) /\ call.raised = "")
    => LET s == call.service
           id == call.pkg_id
           p == Len(s.prefix)
           sub == Format(s.submitter_id)
       IN  /\ Len(id) = p + s.padding + 1 + Len(s.postfix)
           /\ SubSeq(id, 1, p) = s.prefix
           /\ SubSeq(id, p + 1, p + Len(sub)) = sub
           /\ \A i \in (p + Len(sub) + 1)..(p + s.padding + 1) : IsDigit(id[i])
           /\ SubSeq(id, p + s.padding + 2, Len(id)) = s.postfix

\* the digit of number at place p from the right, p = 0 for the last digit
DigitAt(number, p) == (number \div Pow10(p)) % 10

\* the sum of weight(p) * digit at place p over the nine places 0..8
RECURSIVE WeightedSum(_, _, _)
WeightedSum(number, weight(_), p) ==
    IF p < 0 THEN 0
    ELSE weight(p) * DigitAt(number, p) + WeightedSum(number, weight, p - 1)

\* weight FACTORS[0] on the last digit, FACTORS[1] on the one before, ...
WeightFromLast(p) == FACTORS[p + 1]

\* weight FACTORS[8] on the last digit, ..., FACTORS[0] on the ninth from
\* the right
WeightFromNinth(p) == FACTORS[Len(FACTORS) - p]

\* C7 as stated: weight 1 multiplies the last digit, weight 8 the
\* second-to-last, ..., weight 7 the ninth digit from the right, and the
\* checksum is the sum of the products mod 11.
C7_WeightsFromLast ==
    IsChecksum =>
        call.a = WeightedSum(call.number, WeightFromLast, Len(FACTORS) - 1) % 11

\* C7 as amended: weight 7 multiplies the last digit, weight 9 the
\* second-to-last, ..., weight 1 the ninth digit from the right, and the
\* checksum is the sum of the products mod 11.
C7_WeightsFromNinth ==
    IsChecksum =>
        call.a = WeightedSum(call.number, WeightFromNinth, Len(FACTORS) - 1) % 11

\* the worked example: 541234567 has the weighted sum 197, 197 mod 11 = 10
C7_Witness ==
    /\ IsChecksum
    /\ call.number = SUBMITTER_ID * 10000000 + PKG_D2S
    /\ call.a = 10
    /\ call.checksum = 1

\* C8: under a scheme with modul > 0, create_pkg_id(service, n) and
\* create_pkg_id(service, n + k * modul) return the identical identifier.
C8_Reduction ==
    (IsCreate /\ prev.op = "create_pkg_id" /\ call.service.modul > 0)
    => call.raised = prev.raised /\ call.pkg_id = prev.pkg_id

\* an identifier was returned again for a sequence number some moduli away
C8_Witness ==
    /\ IsCreate
    /\ prev.op = "create_pkg_id"
    /\ call.service.modul > 0
    /\ call.pkg_number /= prev.pkg_number
    /\ call.raised = ""
    /\ call.pkg_id = prev.pkg_id

\* C9: for a non-negative input calculate_pkg_checksum returns one decimal
\* digit, fixed by a = weighted sum mod 11: 11 - a for a > 1, 0 for a = 1 and
\* 5 for a = 0.
C9_SingleDigit ==
    (IsChecksum /\ call.number >= 0)
    => /\ call.checksum \in 0..9
       /\ call.a > 1 => call.checksum = 11 - call.a
       /\ call.a = 1 => call.checksum = 0
       /\ call.a = 0 => call.checksum = 5

\* an input with a = 1 got the check digit 0
C9_Witness == IsChecksum /\ call.number > 0 /\ call.a = 1 /\ call.checksum = 0

\* the weights wrapped: place p takes the weight of place p mod 9
WeightCyclic(p) == WeightFromLast(p % Len(FACTORS))

\* the same with the weights in the order the loop takes them
WeightCyclicFromNinth(p) == WeightFromNinth(p % Len(FACTORS))

\* C13: for a number of more than nine digits the weights wrap, the digit
\* at place p from the right is multiplied by the weight of place p mod 9,
\* and every digit contributes to the checksum (with the weights read from
\* either end of FACTORS, see C7).
C13_WeightsWrap ==
    (IsChecksum /\ call.number >= Pow10(Len(FACTORS)))
    => LET top == Len(DecimalDigits(call.number)) - 1
       IN  \/ call.a = WeightedSum(call.number, WeightCyclic, top) % 11
           \/ call.a = WeightedSum(call.number, WeightCyclicFromNinth, top) % 11

\* a number of nine digits
NineDigits(number) ==
    number >= Pow10(Len(FACTORS) - 1) /\ number < Pow10(Len(FACTORS))

\* C14 as stated: for no nine-digit input is the weighted sum mod 11 equal to
\* 1, so the branch returning the check digit 0 is never taken.
C14_OneUnreachable ==
    (IsChecksum /\ NineDigits(call.number))
    => call.a /= 1 /\ call.checksum /= 0

\* C14 as amended: the weighted sum mod 11 is 1 for some nine-digit inputs,
\* and the check digit 0 is returned for exactly the inputs where it is 1.
C14_ZeroOnlyForOne ==
    (IsChecksum /\ call.number >= 0)
    => (call.checksum = 0 <=> call.a = 1)

\* a number of the form 54 + seven digits has a = 1 and the check digit 0
C14_Witness ==
    /\ IsChecksum
    /\ NineDigits(call.number)
    /\ call.number \div 10000000 = SUBMITTER_ID
    /\ call.a = 1
    /\ call.checksum = 0

=============================================================================
